---- MODULE Spec2Model ----
(***************************************************************************)
(* Model of loam::ScanRegistration (src/lib/ScanRegistration.cpp): the ROS *)
(* front end of the LOAM scan registration.  It covers parseParams (option *)
(* validation and the one-time IMU-to-lidar transform lookup), setupROS,   *)
(* handleIMUMessage and publishResult.                                     *)
(*                                                                         *)
(* Conventions.                                                            *)
(*  - An option of the parameter server is a sequence: << >> when the      *)
(*    option is absent (getParam returns false), << v >> when getParam     *)
(*    returns true and stores v.                                           *)
(*  - A floating-point number is a record [k, v]: k = "num" with v its     *)
(*    value in units of 2^-33 / 125 (so that 0.001 is 2^30 units), k =     *)
(*    "nan" for a NaN, k = "tiny" for a positive double too small for any  *)
(*    float.  Numbers are 0 or of magnitude in [2^-10, 2^-9), the binade   *)
(*    of 0.001, where consecutive floats are 125 units apart.              *)
(*  - int is the 32-bit two's complement int of the source.                *)
(***************************************************************************)
EXTENDS Integers, Sequences, FiniteSets, TLC

VARIABLES
  pc,              \* position of the node: "start", "lookup", "sleep",
                   \* "return", "running", "failed", "trapped"
  params,          \* the parameter server (input of parseParams)
  cfg0,            \* config_out as it was handed to setupROS
  config_out,      \* RegistrationParams &config_out
  success,         \* local of parseParams (line 43)
  counter,         \* local of parseParams (line 171)
  waits,           \* number of ros::Duration(1.0).sleep() calls that returned (line 184)
  foundT,          \* result of the most recent successful lookupTransform
  fallback,        \* lines 187-190 have run
  transformIMU_,   \* _transformIMU
  T_lidar_imu,     \* _T_lidar_imu
  lidarFrame,      \* _lidarFrame
  imuFrame,        \* _imuFrame
  imuInputTopic,   \* _imuInputTopic
  subImu,          \* _subImu: topic subscribed to, "" while there is none
  pubs,            \* the six publishers: member name -> topic, "" before advertise
  setupResult,     \* return value of setupROS: "none" until it returned
  imuHistory,      \* BasicScanRegistration::_imuHistory (stamps and payloads)
  forwarded,       \* the IMUStates handed to updateIMUData, in call order
  lastImuIn,       \* the message of the most recent handleIMUMessage call
  imuBranch,       \* branch taken at line 233 by the most recent call
  published,       \* messages handed to the publishers by the last publishResult
  sweeps           \* number of publishResult calls

vars == << pc, params, cfg0, config_out, success, counter, waits, foundT,
           fallback, transformIMU_, T_lidar_imu, lidarFrame, imuFrame,
           imuInputTopic, subImu, pubs, setupResult, imuHistory, forwarded,
           lastImuIn, imuBranch, published, sweeps >>

(***************************************************************************)
(* Bounds of the model.                                                    *)
(***************************************************************************)
MaxImuMsgs == 2      \* IMU messages handled in one run
MaxStamp == 2        \* time stamps are 0..MaxStamp
MaxSweeps == 1       \* publishResult calls in one run

(***************************************************************************)
(* 32-bit int arithmetic.                                                  *)
(***************************************************************************)
MaxInt == 2147483647
MinInt == -MaxInt - 1

\* a + b reduced to the 32-bit two's complement range
AddWrap(a, b) ==
  IF a >= 0 /\ b >= 0 /\ a > MaxInt - b
    THEN (a - MaxInt - 1) + (b - MaxInt - 1)
  ELSE IF a < 0 /\ b < 0 /\ a < MinInt - b
    THEN (a + MaxInt + 1) + (b + MaxInt + 1)
  ELSE a + b

\* 10 * i reduced to the 32-bit two's complement range (8i + 2i)
Mul10Wrap(i) ==
  LET i2 == AddWrap(i, i)
      i4 == AddWrap(i2, i2)
      i8 == AddWrap(i4, i4)
  IN  AddWrap(i8, i2)

Mul10Overflows(i) == i > MaxInt \div 10 \/ i < -(MaxInt \div 10)

\* Outcomes of the int expression `10 * iParam` (line 96).  Signed overflow
\* is undefined: the build either wraps or traps (-ftrapv, sanitizers).
Mul10Outcomes(i) ==
  IF Mul10Overflows(i)
    THEN { [trap |-> FALSE, value |-> Mul10Wrap(i)], [trap |-> TRUE, value |-> 0] }
    ELSE { [trap |-> FALSE, value |-> 10 * i] }

(***************************************************************************)
(* parseParams, lines 49-144: the validated options.  st is the pair       *)
(* [cfg |-> config_out, success |-> success] the statements work on.       *)
(***************************************************************************)
FloatUlp == 125            \* distance of consecutive floats in [2^-10, 2^-9)
MinFloatParam == 2^30      \* the double literal 0.001 of lines 124 and 136

Num(v) == [k |-> "num", v |-> v]
NaN == [k |-> "nan", v |-> 0]
Tiny == [k |-> "tiny", v |-> 0]

\* the float nearest to the magnitude m (no m is halfway between two floats)
RoundMagnitude(m) ==
  LET q == m \div FloatUlp
      r == m % FloatUlp
  IN  IF 2 * r > FloatUlp THEN (q + 1) * FloatUlp ELSE q * FloatUlp

\* getParam(key, float &): the double of the parameter server narrowed to
\* the float variable fParam (line 47)
ToFloat(d) ==
  IF d.k = "nan" THEN NaN
  ELSE IF d.k = "tiny" THEN Num(0)
  ELSE IF d.v >= 0 THEN Num(RoundMagnitude(d.v))
  ELSE Num(-RoundMagnitude(-d.v))

\* the comparisons f <= c and f < c of a float with a constant: false for NaN
FloatLeq(f, c) == f.k = "num" /\ f.v <= c
FloatLess(f, c) == f.k = "num" /\ f.v < c

Parse_scanPeriod(p, st) ==
  IF p.scanPeriod = << >> THEN st
  ELSE LET fParam == ToFloat(p.scanPeriod[1]) IN
       IF FloatLeq(fParam, 0) THEN [st EXCEPT !.success = FALSE]
       ELSE [st EXCEPT !.cfg.scanPeriod = fParam]

Parse_imuHistorySize(p, st) ==
  IF p.imuHistorySize = << >> THEN st
  ELSE LET iParam == p.imuHistorySize[1] IN
       IF iParam < 1 THEN [st EXCEPT !.success = FALSE]
       ELSE [st EXCEPT !.cfg.imuHistorySize = iParam]

Parse_featureRegions(p, st) ==
  IF p.featureRegions = << >> THEN st
  ELSE LET iParam == p.featureRegions[1] IN
       IF iParam < 1 THEN [st EXCEPT !.success = FALSE]
       ELSE [st EXCEPT !.cfg.nFeatureRegions = iParam]

Parse_curvatureRegion(p, st) ==
  IF p.curvatureRegion = << >> THEN st
  ELSE LET iParam == p.curvatureRegion[1] IN
       IF iParam < 1 THEN [st EXCEPT !.success = FALSE]
       ELSE [st EXCEPT !.cfg.curvatureRegion = iParam]

\* lines 90-100; m10 is the value the expression 10 * iParam produced
Parse_maxCornerSharp(p, st, m10) ==
  IF p.maxCornerSharp = << >> THEN st
  ELSE LET iParam == p.maxCornerSharp[1] IN
       IF iParam < 1 THEN [st EXCEPT !.success = FALSE]
       ELSE [st EXCEPT !.cfg.maxCornerSharp = iParam,
                       !.cfg.maxCornerLessSharp = m10]

\* lines 102-111
Parse_maxCornerLessSharp(p, st) ==
  IF p.maxCornerLessSharp = << >> THEN st
  ELSE LET iParam == p.maxCornerLessSharp[1] IN
       IF iParam < st.cfg.maxCornerSharp THEN [st EXCEPT !.success = FALSE]
       ELSE [st EXCEPT !.cfg.maxCornerLessSharp = iParam]

Parse_maxSurfaceFlat(p, st) ==
  IF p.maxSurfaceFlat = << >> THEN st
  ELSE LET iParam == p.maxSurfaceFlat[1] IN
       IF iParam < 1 THEN [st EXCEPT !.success = FALSE]
       ELSE [st EXCEPT !.cfg.maxSurfaceFlat = iParam]

Parse_surfaceCurvatureThreshold(p, st) ==
  IF p.surfaceCurvatureThreshold = << >> THEN st
  ELSE LET fParam == ToFloat(p.surfaceCurvatureThreshold[1]) IN
       IF FloatLess(fParam, MinFloatParam) THEN [st EXCEPT !.success = FALSE]
       ELSE [st EXCEPT !.cfg.surfaceCurvatureThreshold = fParam]

Parse_lessFlatFilterSize(p, st) ==
  IF p.lessFlatFilterSize = << >> THEN st
  ELSE LET fParam == ToFloat(p.lessFlatFilterSize[1]) IN
       IF FloatLess(fParam, MinFloatParam) THEN [st EXCEPT !.success = FALSE]
       ELSE [st EXCEPT !.cfg.lessFlatFilterSize = fParam]

\* lines 43-88: up to and including the curvatureRegion block
ParseThroughCurvatureRegion(p, cfg) ==
  Parse_curvatureRegion(p,
    Parse_featureRegions(p,
      Parse_imuHistorySize(p,
        Parse_scanPeriod(p, [cfg |-> cfg, success |-> TRUE]))))

\* lines 43-100: up to and including the maxCornerSharp block
ParseThroughCornerSharp(p, cfg, m10) ==
  Parse_maxCornerSharp(p, ParseThroughCurvatureRegion(p, cfg), m10)

\* config_out when the multiplication of line 96 traps.  The stores of the
\* earlier blocks are done (calls separate them from line 96); the store of
\* line 95 shares its block with the trapping multiplication, and the build
\* decides whether it is done before the trap (unoptimised builds) or not
\* (optimised builds).  Line 96 itself never stores.
TrapConfigs(p, cfg) ==
  LET before == ParseThroughCurvatureRegion(p, cfg).cfg
  IN  { before, [before EXCEPT !.maxCornerSharp = p.maxCornerSharp[1]] }

\* lines 43-144: all nine validated options, in source order
ParseOptions(p, cfg, m10) ==
  Parse_lessFlatFilterSize(p,
    Parse_surfaceCurvatureThreshold(p,
      Parse_maxSurfaceFlat(p,
        Parse_maxCornerLessSharp(p,
          ParseThroughCornerSharp(p, cfg, m10)))))

\* whether line 96 is executed for p, and the outcomes of its multiplication
Line96Runs(p) == p.maxCornerSharp # << >> /\ p.maxCornerSharp[1] >= 1

Line96Outcomes(p) ==
  IF Line96Runs(p) THEN Mul10Outcomes(p.maxCornerSharp[1])
  ELSE { [trap |-> FALSE, value |-> 0] }

\* lines 146-164: an option that is copied when present
OrDefault(opt, old) == IF opt = << >> THEN old ELSE opt[1]

(***************************************************************************)
(* Inputs.                                                                 *)
(***************************************************************************)
Transforms == { "T1", "T2" }          \* results lookupTransform can return
Unset == "unset"                      \* _T_lidar_imu before any assignment

\* config_out as the caller hands it to setupROS: values inside every range
\* of the option table, with maxCornerLessSharp >= maxCornerSharp
DefaultConfig ==
  [ scanPeriod |-> ToFloat(Num(2^30 + 2^28)), imuHistorySize |-> 2,
    nFeatureRegions |-> 6, curvatureRegion |-> 5, maxCornerSharp |-> 2,
    maxCornerLessSharp |-> 20, maxSurfaceFlat |-> 4,
    surfaceCurvatureThreshold |-> ToFloat(Num(2^30 + 2^27)),
    lessFlatFilterSize |-> ToFloat(Num(2^30 + 2^29 + 2^28)) ]

InitialConfigs ==
  { DefaultConfig, [DefaultConfig EXCEPT !.maxCornerSharp = 3, !.maxCornerLessSharp = 3] }

NoParams ==
  [ scanPeriod |-> << >>, imuHistorySize |-> << >>, featureRegions |-> << >>,
    curvatureRegion |-> << >>, maxCornerSharp |-> << >>,
    maxCornerLessSharp |-> << >>, maxSurfaceFlat |-> << >>,
    surfaceCurvatureThreshold |-> << >>, lessFlatFilterSize |-> << >>,
    lidarFrame |-> << >>, imuFrame |-> << >>, transformImuData |-> << >>,
    imuInputTopic |-> << >> ]

BigSharp == MaxInt \div 10 + 1    \* least maxCornerSharp whose tenfold overflows

\* doubles a parameter server can hold for a float option
Thousandth == Num(MinFloatParam)              \* 0.001
NearlyThousandth == Num(MinFloatParam - 11)   \* 0.00099999999: nearest float is float(0.001)
UnderThousandth == Num(MinFloatParam - 12)    \* the next double down: nearest float is below
OneAndAHalf == Num(2^30 + 2^29)               \* 0.0015

\* parameter servers of the option-validation specification: every
\* combination of absent / out of range / in range for the nine validated
\* options, with NaN and the doubles around 0.001 and 0 for the float ones
ParseParamSpace ==
  [ scanPeriod : { << >>, << Num(0) >>, << OneAndAHalf >>, << NaN >>, << Tiny >> },
    imuHistorySize : { << >>, << 0 >>, << 1 >> },
    featureRegions : { << >>, << 0 >>, << 4 >> },
    curvatureRegion : { << >>, << -1 >>, << 3 >> },
    maxCornerSharp : { << >>, << 0 >>, << 4 >>, << BigSharp >> },
    maxCornerLessSharp : { << >>, << 2 >>, << 3 >>, << MaxInt >> },
    maxSurfaceFlat : { << >>, << 0 >>, << 1 >> },
    surfaceCurvatureThreshold :
      { << >>, << UnderThousandth >>, << NearlyThousandth >>, << Thousandth >>, << NaN >> },
    lessFlatFilterSize : { << >>, << Num(-(2^30 + 2^29)) >>, << OneAndAHalf >>, << NaN >> },
    lidarFrame : { << >> }, imuFrame : { << >> },
    transformImuData : { << >>, << TRUE >> },
    imuInputTopic : { << >> } ]

\* parameter servers of the life-cycle specification
LifecycleParamSpace ==
  { [NoParams EXCEPT !.scanPeriod = sp, !.imuHistorySize = hs,
                     !.maxCornerSharp = mcs, !.lidarFrame = names[1],
                     !.imuInputTopic = names[2], !.transformImuData = td] :
      sp \in { << >>, << Num(0) >> },
      hs \in { << >>, << 1 >> },
      mcs \in { << >>, << BigSharp >> },
      names \in { << << >>, << >> >>, << << "/velodyne" >>, << "/imu/raw" >> >> },
      td \in { << >>, << TRUE >>, << FALSE >> } }

PubNames == { "_pubLaserCloud", "_pubCornerPointsSharp",
              "_pubCornerPointsLessSharp", "_pubSurfPointsFlat",
              "_pubSurfPointsLessFlat", "_pubImuTrans" }

NoPubs == [ n \in PubNames |-> "" ]

Payloads == { "a", "b" }
ImuMsgs == [ stamp : 0..MaxStamp, payload : Payloads, rot : { "none" } ]

(***************************************************************************)
(* Initial state: the object before setupROS is called.                    *)
(***************************************************************************)
InitWith(P) ==
  /\ pc = "start"
  /\ params \in P
  /\ cfg0 \in InitialConfigs
  /\ config_out = cfg0
  /\ success = TRUE
  /\ counter = 0
  /\ waits = 0
  /\ foundT = Unset
  /\ fallback = FALSE
  /\ transformIMU_ = FALSE
  /\ T_lidar_imu = Unset
  /\ lidarFrame = ""
  /\ imuFrame = ""
  /\ imuInputTopic = ""
  /\ subImu = ""
  /\ pubs = NoPubs
  /\ setupResult = "none"
  /\ imuHistory = << >>
  /\ forwarded = << >>
  /\ lastImuIn = << >>
  /\ imuBranch = "none"
  /\ published = {}
  /\ sweeps = 0

Init == InitWith(LifecycleParamSpace)

InitParse == InitWith(ParseParamSpace)

(***************************************************************************)
(* setupROS lines 201-206 and parseParams lines 43-171: the defaults, the  *)
(* options, and the entry of the retry loop.                               *)
(***************************************************************************)
\* line 167: where parseParams continues after the options
AfterOptions(tIMU) == IF tIMU THEN "lookup" ELSE "return"

SetupStart ==
  /\ pc = "start"
  /\ \E r \in Line96Outcomes(params) :
       /\ ~r.trap
       /\ LET st == ParseOptions(params, config_out, r.value)
              tIMU == OrDefault(params.transformImuData, FALSE)
          IN  /\ config_out' = st.cfg
              /\ success' = st.success
              /\ lidarFrame' = OrDefault(params.lidarFrame, "/camera")
              /\ imuFrame' = OrDefault(params.imuFrame, "/imu")
              /\ imuInputTopic' = OrDefault(params.imuInputTopic, "/imu/data")
              /\ transformIMU_' = tIMU
              /\ pc' = AfterOptions(tIMU)
  /\ counter' = 0
  /\ UNCHANGED << params, cfg0, waits, foundT, fallback, T_lidar_imu, subImu,
                  pubs, setupResult, imuHistory, forwarded, lastImuIn,
                  imuBranch, published, sweeps >>

\* setupROS lines 201-204 and parseParams lines 43-96 when the multiplication
\* of line 96 overflows and the build traps: the process aborts there
SetupTrap ==
  /\ pc = "start"
  /\ \E r \in Line96Outcomes(params) :
       /\ r.trap
       /\ config_out' \in TrapConfigs(params, config_out)
       /\ success' = ParseThroughCurvatureRegion(params, config_out).success
  /\ transformIMU_' = FALSE
  /\ imuFrame' = "/imu"
  /\ lidarFrame' = "/camera"
  /\ imuInputTopic' = "/imu/data"
  /\ pc' = "trapped"
  /\ UNCHANGED << params, cfg0, counter, waits, foundT, fallback, T_lidar_imu,
                  subImu, pubs, setupResult, imuHistory, forwarded, lastImuIn,
                  imuBranch, published, sweeps >>

(***************************************************************************)
(* parseParams lines 172-192: one iteration of the retry loop.             *)
(***************************************************************************)
MaxCounter == 10   \* the literal of line 186

\* line 186: the loop gives up
GivesUp(c) == c > MaxCounter

\* mutant of TransformIMUAfter: line 189 left out
TransformIMUAfter_Kept(c, tIMU) == tIMU

\* lines 186-191: _transformIMU after the check that ends an iteration
TransformIMUAfter(c, tIMU) == IF GivesUp(c) THEN FALSE ELSE tIMU

\* mutant of LoopExit: line 190 left out
LoopExit_NoGiveUp(c, found) == IF found THEN "return" ELSE "lookup"

\* line 172 after an iteration that left transform_found = found
LoopExit(c, found) == IF found \/ GivesUp(c) THEN "return" ELSE "lookup"

\* lookupTransform returns t (lines 173-179, 186-191)
LookupSucceed ==
  /\ pc = "lookup"
  /\ \E t \in Transforms :
       /\ T_lidar_imu' = t
       /\ foundT' = t
  /\ counter' = counter + 1
  /\ transformIMU_' = TransformIMUAfter(counter + 1, transformIMU_)
  /\ fallback' = (fallback \/ GivesUp(counter + 1))
  /\ pc' = LoopExit(counter + 1, TRUE)
  /\ UNCHANGED << params, cfg0, config_out, success, waits, lidarFrame,
                  imuFrame, imuInputTopic, subImu, pubs, setupResult,
                  imuHistory, forwarded, lastImuIn, imuBranch, published,
                  sweeps >>

\* lookupTransform throws (lines 173-177, 180-184): the thread enters the
\* one-second sleep of line 184 with counter already incremented
LookupFail ==
  /\ pc = "lookup"
  /\ counter' = counter + 1
  /\ pc' = "sleep"
  /\ UNCHANGED << params, cfg0, config_out, success, waits, foundT, fallback,
                  transformIMU_, T_lidar_imu, lidarFrame, imuFrame,
                  imuInputTopic, subImu, pubs, setupResult, imuHistory,
                  forwarded, lastImuIn, imuBranch, published, sweeps >>

\* the sleep of line 184 returns; lines 186-191 and the loop test of line 172
SleepDone ==
  /\ pc = "sleep"
  /\ waits' = waits + 1
  /\ transformIMU_' = TransformIMUAfter(counter, transformIMU_)
  /\ fallback' = (fallback \/ GivesUp(counter))
  /\ pc' = LoopExit(counter, FALSE)
  /\ UNCHANGED << params, cfg0, config_out, success, counter, foundT,
                  T_lidar_imu, lidarFrame, imuFrame, imuInputTopic, subImu,
                  pubs, setupResult, imuHistory, forwarded, lastImuIn,
                  imuBranch, published, sweeps >>

(***************************************************************************)
(* parseParams line 195 and setupROS lines 206-226.                        *)
(***************************************************************************)
Topics ==
  [ _pubLaserCloud |-> "velodyne_cloud_2",
    _pubCornerPointsSharp |-> "laser_cloud_sharp",
    _pubCornerPointsLessSharp |-> "laser_cloud_less_sharp",
    _pubSurfPointsFlat |-> "laser_cloud_flat",
    _pubSurfPointsLessFlat |-> "laser_cloud_less_flat",
    _pubImuTrans |-> "imu_trans" ]

\* mutant of SetupContinues: the result of parseParams ignored
SetupContinues_Always(ok) == TRUE

\* lines 206-207: whether setupROS goes on after parseParams returned ok
SetupContinues(ok) == ok

SetupFinish ==
  /\ pc = "return"
  /\ IF SetupContinues(success)
       THEN /\ subImu' = imuInputTopic
            /\ pubs' = [ n \in PubNames |-> Topics[n] ]
            /\ setupResult' = "true"
            /\ pc' = "running"
       ELSE /\ setupResult' = "false"
            /\ pc' = "failed"
            /\ UNCHANGED << subImu, pubs >>
  /\ UNCHANGED << params, cfg0, config_out, success, counter, waits, foundT,
                  fallback, transformIMU_, T_lidar_imu, lidarFrame, imuFrame,
                  imuInputTopic, imuHistory, forwarded, lastImuIn, imuBranch,
                  published, sweeps >>

(***************************************************************************)
(* handleIMUMessage, lines 229-263.                                        *)
(***************************************************************************)
\* transformIMU(imu_in, imu_out, t_in): the sample expressed in the lidar frame
transformIMU(imuIn, t) == [imuIn EXCEPT !.rot = t]

\* mutant of Rotated: the test of line 233 left out
Rotated_Always(imuIn, tIMU, t) == [imuIn EXCEPT !.rot = t]

\* lines 232-238
Rotated(imuIn, tIMU, t) == IF tIMU THEN transformIMU(imuIn, t) ELSE imuIn

\* line 233: which branch ran
BranchOf(tIMU) == IF tIMU THEN "transformed" ELSE "copied"

\* lines 243-260: the IMUState built from the rotated sample
NewState(imuInRotated) ==
  [ stamp |-> imuInRotated.stamp, payload |-> imuInRotated.payload,
    rot |-> imuInRotated.rot ]

\* line 262: whether the state is handed to updateIMUData
Forwards(newState, fwd) == TRUE

\* BasicScanRegistration::updateIMUData: a state older than the newest entry
\* is dropped, otherwise it is pushed, evicting the oldest entry at capacity
updateIMUData(hist, newState, capacity) ==
  IF hist # << >> /\ newState.stamp < hist[Len(hist)].stamp THEN hist
  ELSE IF Len(hist) >= capacity THEN Append(Tail(hist), newState)
  ELSE Append(hist, newState)

HandleIMUMessage ==
  /\ subImu # ""
  /\ Len(forwarded) < MaxImuMsgs
  /\ \E imuIn \in ImuMsgs :
       LET newState == NewState(Rotated(imuIn, transformIMU_, T_lidar_imu))
       IN  /\ lastImuIn' = << imuIn >>
           /\ imuBranch' = BranchOf(transformIMU_)
           /\ IF Forwards(newState, forwarded)
                THEN /\ forwarded' = Append(forwarded, newState)
                     /\ imuHistory' = updateIMUData(imuHistory, newState,
                                                    config_out.imuHistorySize)
                ELSE UNCHANGED << forwarded, imuHistory >>
  /\ UNCHANGED << pc, params, cfg0, config_out, success, counter, waits,
                  foundT, fallback, transformIMU_, T_lidar_imu, lidarFrame,
                  imuFrame, imuInputTopic, subImu, pubs, setupResult,
                  published, sweeps >>

(***************************************************************************)
(* publishResult, lines 265-281.                                           *)
(***************************************************************************)
Clouds ==
  [ _pubLaserCloud |-> "laserCloud",
    _pubCornerPointsSharp |-> "cornerPointsSharp",
    _pubCornerPointsLessSharp |-> "cornerPointsLessSharp",
    _pubSurfPointsFlat |-> "surfacePointsFlat",
    _pubSurfPointsLessFlat |-> "surfacePointsLessFlat",
    _pubImuTrans |-> "imuTransform" ]

\* publishCloudMsg(publisher, cloud, stamp, frameID): the message sent
CloudMsg(n, sweepStartTime, frameID) ==
  [ topic |-> pubs[n], cloud |-> Clouds[n], stamp |-> sweepStartTime,
    frame_id |-> frameID ]

\* lines 267-280: the six messages of one sweep
SweepMsgs(sweepStartTime, frameID) ==
  { CloudMsg(n, sweepStartTime, frameID) : n \in PubNames }

PublishResult ==
  /\ pc = "running"
  /\ sweeps < MaxSweeps
  /\ \E sweepStart \in 0..MaxStamp :
       published' = SweepMsgs(sweepStart, lidarFrame)
  /\ sweeps' = sweeps + 1
  /\ UNCHANGED << pc, params, cfg0, config_out, success, counter, waits,
                  foundT, fallback, transformIMU_, T_lidar_imu, lidarFrame,
                  imuFrame, imuInputTopic, subImu, pubs, setupResult,
                  imuHistory, forwarded, lastImuIn, imuBranch >>

(***************************************************************************)
(* Specifications.                                                         *)
(***************************************************************************)
Next ==
  \/ SetupStart
  \/ SetupTrap
  \/ LookupSucceed
  \/ LookupFail
  \/ SleepDone
  \/ SetupFinish
  \/ HandleIMUMessage
  \/ PublishResult

Spec == Init /\ [][Next]_vars

\* start-up alone, over every combination of the validated options
NextParse ==
  \/ SetupStart
  \/ SetupTrap
  \/ LookupSucceed
  \/ LookupFail
  \/ SleepDone
  \/ SetupFinish

SpecParse == InitParse /\ [][NextParse]_vars

\* start-up alone from the life-cycle inputs; lookupTransform returns or
\* throws at once and the sleep of line 184 returns after one second, so a
\* step of the retry loop that can run does run
LookupStep == LookupSucceed \/ LookupFail \/ SleepDone

FairSetupSpec == Init /\ [][NextParse]_vars /\ WF_vars(LookupStep)

(***************************************************************************)
(* Properties.                                                             *)
(***************************************************************************)
Last(s) == s[Len(s)]

ParseReturned == pc \in { "return", "running", "failed" }

InLoop == pc \in { "lookup", "sleep" }

AllLookupsFailed == counter > 0 /\ waits = counter

\* the maxCornerSharp value maxCornerLessSharp is compared with
CornerSharpInEffect(p, c0) ==
  IF p.maxCornerSharp # << >> /\ p.maxCornerSharp[1] >= 1
    THEN p.maxCornerSharp[1]
    ELSE c0.maxCornerSharp

\* the constraints of the option table on a supplied double
IsPositive(d) == d.k = "tiny" \/ (d.k = "num" /\ d.v > 0)
IsAtLeastThousandth(d) == d.k = "num" /\ d.v >= MinFloatParam

\* some supplied option is outside the range the option table gives it
ViolatesConstraint(p, c0) ==
  \/ p.scanPeriod # << >> /\ ~IsPositive(p.scanPeriod[1])
  \/ \E o \in { "imuHistorySize", "featureRegions", "curvatureRegion",
                "maxCornerSharp", "maxSurfaceFlat" } :
        p[o] # << >> /\ ~(p[o][1] >= 1)
  \/ /\ p.maxCornerLessSharp # << >>
     /\ ~(p.maxCornerLessSharp[1] >= CornerSharpInEffect(p, c0))
  \/ \E o \in { "surfaceCurvatureThreshold", "lessFlatFilterSize" } :
        p[o] # << >> /\ ~IsAtLeastThousandth(p[o][1])

\* C1: parseParams returns false exactly when a supplied option violates
\* its constraint, whatever options are absent and whatever the transform
\* lookups did.
C1_FalseIffViolation ==
  (InLoop \/ ParseReturned) =>
     (success <=> ~ViolatesConstraint(params, cfg0))

\* C2: when parseParams returns false, config_out holds exactly the values
\* it held before the call.
C2_RejectedLeavesConfig ==
  (ParseReturned /\ ~success) => config_out = cfg0

\* C3: a failed parseParams makes setupROS return false with no
\* subscription and no publisher; they exist only once setupROS returned true.
C3_FailedSetupCreatesNothing ==
  /\ (subImu # "" \/ pubs # NoPubs) => setupResult = "true"
  /\ (pc \in { "running", "failed" } /\ ~success) =>
        (setupResult = "false" /\ subImu = "" /\ pubs = NoPubs)

\* C3 witness: setupROS returned false after the retry loop ran to its end.
C3_Witness ==
  /\ pc = "failed" /\ setupResult = "false" /\ ~success
  /\ counter = MaxCounter + 1 /\ subImu = "" /\ pubs = NoPubs

\* C4: after a parseParams that returns true, maxCornerLessSharp is at
\* least maxCornerSharp in config_out.
C4_LessSharpAtLeastSharp ==
  ((InLoop \/ ParseReturned) /\ success) =>
     config_out.maxCornerLessSharp >= config_out.maxCornerSharp

\* C5: the retry loop makes at most MaxCounter + 1 lookups, waits once per
\* failed lookup, always leaves the loop, and leaves it with _transformIMU
\* false when every lookup failed.
C5_LookupTerminates ==
  /\ [](counter <= MaxCounter + 1 /\ waits <= counter)
  /\ [](pc = "lookup" => (counter <= MaxCounter /\ waits <= MaxCounter))
  /\ [](pc = "sleep" => waits = counter - 1)
  /\ (InLoop ~> pc = "return")
  /\ []((pc = "return" /\ AllLookupsFailed) => ~transformIMU_)

\* C5 witness: every permitted lookup failed and the loop was left.
C5_Witness ==
  pc = "return" /\ counter = MaxCounter + 1 /\ waits = MaxCounter + 1 /\ ~transformIMU_

\* C6: when the lookup that ends the loop succeeded, parseParams ends with
\* _transformIMU true and _T_lidar_imu the transform found.
C6_SuccessKeepsTransform ==
  (pc = "return" /\ params.transformImuData = << TRUE >> /\ ~AllLookupsFailed) =>
     (transformIMU_ /\ T_lidar_imu = foundT /\ foundT \in Transforms)

\* C7: a message older than the most recently accepted sample is not
\* handed to updateIMUData, so the stamps handed over never decrease.
C7_OutOfOrderNotForwarded ==
  \A i \in 2..Len(forwarded) : forwarded[i].stamp >= forwarded[i - 1].stamp

\* C8: after the transform fallback (requested, never resolved) every
\* published message carries an explicit uncompensated flag.
C8_FallbackFlagged ==
  (fallback /\ AllLookupsFailed) =>
     \A m \in published : "uncompensated" \in DOMAIN m

\* C9: once setupROS has returned with _transformIMU false, no step turns
\* it back on or looks the transform up again, and every IMU message handled
\* is handed on as an unmodified copy.
C9_DisabledIsPermanent ==
  [][ (pc = "running" /\ ~transformIMU_) =>
        /\ ~transformIMU_'
        /\ counter' = counter /\ T_lidar_imu' = T_lidar_imu /\ foundT' = foundT
        /\ (Len(forwarded') > Len(forwarded) =>
              /\ imuBranch' = "copied"
              /\ Last(forwarded') = lastImuIn'[1]) ]_vars

\* C9 witness: disabled by the fallback although a transform is stored,
\* with two IMU messages handled and a sweep published.
C9_Witness ==
  /\ pc = "running" /\ ~transformIMU_ /\ fallback /\ T_lidar_imu \in Transforms
  /\ Len(forwarded) = 2 /\ sweeps = 1 /\ imuBranch = "copied"

\* C10: an IMU message is handled only after setupROS finished, and when
\* it is transformed the transform is the one a successful lookup returned.
C10_TransformResolvedBeforeUse ==
  [][ Len(forwarded') > Len(forwarded) =>
        /\ pc = "running" /\ setupResult = "true"
        /\ (transformIMU_ =>
              /\ T_lidar_imu \in Transforms /\ T_lidar_imu = foundT
              /\ imuBranch' = "transformed"
              /\ Last(forwarded').rot = foundT) ]_vars

\* C10 witness: a message transformed with the transform found on the
\* last attempt that still counts.
C10_Witness ==
  /\ Len(forwarded) >= 1 /\ imuBranch = "transformed"
  /\ counter = MaxCounter /\ waits = MaxCounter - 1
  /\ Last(forwarded).rot = "T2" /\ T_lidar_imu = "T2"

====
